---- MODULE Spec2Model ----
(***************************************************************************)
(* A model of the Kalico firmware build system (src/build.py): the         *)
(* KalicoBuilder commands build, check-configurations, validate,           *)
(* rebuild-index and sync, acting on index.json, the builds/ directory,    *)
(* the kconfigs/ directory and the S3 bucket.                              *)
(*                                                                         *)
(* Representation.                                                         *)
(*  - A version string is the sequence of its code points, so that         *)
(*    Python's string comparison is the lexicographic order StrLess.       *)
(*  - A filename is a TLA+ string; str.format is modelled on a template    *)
(*    given as its sequence of literal pieces and {name} replacement       *)
(*    fields.                                                              *)
(*  - A dict is a function whose DOMAIN is its key set; an ordered dict    *)
(*    that the code iterates (configuration.permutations) is the sequence  *)
(*    of its [key, values] items, keys distinct.                           *)
(*  - An optional value (dict.get without default) is <<>> for None and    *)
(*    <<v>> for v.                                                         *)
(*  - buildDate is the UTC time in whole seconds.                          *)
(***************************************************************************)
EXTENDS Integers, Sequences, FiniteSets, TLC

VARIABLES
    template,     \* contents of index-template.json
    indexFile,    \* index.json: NoFile, or <<catalog>>
    buildsDir,    \* builds/: NoDir, or <<[version |-> set of file names]>>
    kconfigs,     \* names of the files present under kconfigs/
    toolchain,    \* what building each kconfig with make does
    s3,           \* keys present in the S3 bucket
    now,          \* the UTC clock, in seconds
    ops,          \* number of commands run so far
    budget,       \* number of commands the operator runs at most
    last,         \* what the last command did and reported
    loaded,       \* the builds list index.json held before the first command
    call          \* the last direct call of a pure method, with its result

vars ==
    <<template, indexFile, buildsDir, kconfigs, toolchain, s3, now, ops, budget,
      last, loaded, call>>

sysvars ==
    <<template, indexFile, buildsDir, kconfigs, toolchain, s3, now, ops, budget,
      last, loaded>>

\* what no command changes
fixed == <<template, kconfigs, toolchain, budget, loaded, call>>

(***************************************************************************)
(* Bounds of the model.                                                    *)
(***************************************************************************)
MaxClock == 1

MaxOps == 1

MaxCatalogOps == 2

(***************************************************************************)
(* Strings as code-point sequences, and Python's str ordering.             *)
(***************************************************************************)
RECURSIVE StrLess(_, _)
StrLess(a, b) ==
    IF a = <<>> THEN b # <<>>
    ELSE IF b = <<>> THEN FALSE
    ELSE IF Head(a) # Head(b) THEN Head(a) < Head(b)
    ELSE StrLess(Tail(a), Tail(b))

None == <<>>

Some(v) == <<v>>

\* d.get(k): None when the key is absent
Get(d, k) == IF k \in DOMAIN d THEN Some(d[k]) ELSE None

\* d.get(k, default)
GetOr(d, k, default) == IF k \in DOMAIN d THEN d[k] ELSE default

(***************************************************************************)
(* list.sort(key=lambda x: x.get("version", ""), reverse=True): a stable   *)
(* sort, descending by version; entries of equal version keep their order. *)
(***************************************************************************)
VersionKey(x) == GetOr(x, "version", <<>>)

RECURSIVE InsertDesc(_, _)
InsertDesc(sorted, x) ==
    IF sorted = <<>> THEN <<x>>
    ELSE IF StrLess(VersionKey(Head(sorted)), VersionKey(x))
         THEN <<x>> \o sorted
         ELSE <<Head(sorted)>> \o InsertDesc(Tail(sorted), x)

RECURSIVE SortDescFrom(_, _)
SortDescFrom(acc, rest) ==
    IF rest = <<>> THEN acc
    ELSE SortDescFrom(InsertDesc(acc, Head(rest)), Tail(rest))

\* the sort without reverse=True
RECURSIVE InsertAsc(_, _)
InsertAsc(sorted, x) ==
    IF sorted = <<>> THEN <<x>>
    ELSE IF StrLess(VersionKey(x), VersionKey(Head(sorted)))
         THEN <<x>> \o sorted
         ELSE <<Head(sorted)>> \o InsertAsc(Tail(sorted), x)

RECURSIVE SortAscFrom(_, _)
SortAscFrom(acc, rest) ==
    IF rest = <<>> THEN acc
    ELSE SortAscFrom(InsertAsc(acc, Head(rest)), Tail(rest))

SortByVersionAsc(builds) == SortAscFrom(<<>>, builds)

SortByVersionDesc(builds) == SortDescFrom(<<>>, builds)

(***************************************************************************)
(* Build entries and the two catalog mutations.                            *)
(***************************************************************************)
_create_build_entry(version, commit_url, clock) ==
    [version |-> version, buildDate |-> clock, githubCommitUrl |-> commit_url]

\* index of the first entry with this version, 0 when there is none
RECURSIVE FirstIndexOf(_, _, _)
FirstIndexOf(builds, version, i) ==
    IF i > Len(builds) THEN 0
    ELSE IF Get(builds[i], "version") = Some(version) THEN i
    ELSE FirstIndexOf(builds, version, i + 1)

\* the update that never looks for an existing entry
AlwaysAppend(builds, build_entry) == Append(builds, build_entry)

\* the for/else of update_build_in_index
ReplaceOrAppend(builds, build_entry) ==
    LET i == FirstIndexOf(builds, build_entry.version, 1)
    IN  IF i > 0 THEN [builds EXCEPT ![i] = build_entry]
        ELSE Append(builds, build_entry)

\* the builds list update_build_in_index saves
update_build_in_index(builds, version, commit_url, clock) ==
    SortByVersionDesc(
        ReplaceOrAppend(builds, _create_build_entry(version, commit_url, clock)))

\* the builds list rebuild_index saves: one entry per sub-directory of
\* builds/, the existing entry of that version when there is one (the last
\* one, as the dict comprehension keeps it), else a fresh one
LastWithVersion(existing_builds, version) ==
    LET idx == {i \in 1..Len(existing_builds) :
                    Get(existing_builds[i], "version") = Some(version)}
    IN  IF idx = {} THEN None
        ELSE Some(existing_builds[CHOOSE i \in idx : \A j \in idx : j <= i])

\* Path.iterdir() yields the directories in an arbitrary order
RECURSIVE IterDir(_)
IterDir(dirs) ==
    IF dirs = {} THEN <<>>
    ELSE LET d == CHOOSE d \in dirs : TRUE
         IN  <<d>> \o IterDir(dirs \ {d})

\* the rebuild that regenerates every entry
RebuiltBuildsFresh(existing_builds, dirs, clock) ==
    LET names == IterDir(dirs)
    IN  SortByVersionDesc([i \in 1..Len(names) |-> _create_build_entry(names[i], "", clock)])

RebuiltBuilds(existing_builds, dirs, clock) ==
    LET names == IterDir(dirs)
        versions == [i \in 1..Len(names) |->
                        LET old == LastWithVersion(existing_builds, names[i])
                        IN  IF old # None THEN old[1]
                            ELSE _create_build_entry(names[i], "", clock)]
    IN  SortByVersionDesc(versions)

(***************************************************************************)
(* Filename templates.  A template is the sequence of the pieces           *)
(* str.format sees: literal text [lit |-> s] and replacement fields        *)
(* [fld |-> name].  The empty template is the empty string.                *)
(***************************************************************************)
Lit(s) == [lit |-> s]

Fld(n) == [fld |-> n]

IsFld(piece) == "fld" \in DOMAIN piece

\* result of a call that may raise: [err |-> "", val |-> v] on return,
\* [err |-> e, val |-> ""] when it raises e
Ok(v) == [err |-> "", val |-> v]

Raise(e) == [err |-> e, val |-> ""]

\* the formatting that renders a field params lacks as the empty string
RECURSIVE StrFormatLenient(_, _)
StrFormatLenient(tmpl, params) ==
    IF tmpl = <<>> THEN Ok("")
    ELSE LET piece == Head(tmpl)
             rest == StrFormatLenient(Tail(tmpl), params)
         IN  Ok((IF ~IsFld(piece) THEN piece.lit
                 ELSE IF piece.fld \in DOMAIN params THEN params[piece.fld]
                 ELSE "") \o rest.val)

\* template.format(**params): KeyError at the first field that params lacks
RECURSIVE StrFormat(_, _)
StrFormat(tmpl, params) ==
    IF tmpl = <<>> THEN Ok("")
    ELSE LET piece == Head(tmpl)
             rest == StrFormat(Tail(tmpl), params)
         IN  IF IsFld(piece) /\ piece.fld \notin DOMAIN params THEN Raise("KeyError")
             ELSE IF rest.err # "" THEN rest
             ELSE Ok((IF IsFld(piece) THEN params[piece.fld] ELSE piece.lit) \o rest.val)

\* {"targetId": ..., "vendorId": ..., **permutation}
MergedParams(target, permutation) ==
    [k \in {"targetId", "vendorId"} \cup DOMAIN permutation |->
        IF k \in DOMAIN permutation THEN permutation[k] ELSE target[k]]

format_filename(tmpl, target, permutation) ==
    StrFormat(tmpl, MergedParams(target, permutation))

\* Python truthiness of config.get(key): None and "" are false
Truthy(opt) == opt # None /\ opt[1] # <<>>

\* config.get(primary_key, config.get(fallback_key, default)): a key that is
\* present wins even when its value is empty
_get_template_present(config, primary_key, fallback_key, default) ==
    IF primary_key \in DOMAIN config THEN config[primary_key]
    ELSE IF fallback_key \in DOMAIN config THEN config[fallback_key]
    ELSE default

\* config.get(primary_key) or config.get(fallback_key) or default
_get_template(config, primary_key, fallback_key, default) ==
    IF Truthy(Get(config, primary_key)) THEN config[primary_key]
    ELSE IF Truthy(Get(config, fallback_key)) THEN config[fallback_key]
    ELSE default

DefaultKconfigTemplate ==
    <<Fld("targetId"), Lit("_"), Fld("vendorId"), Lit(".kconfig")>>

DefaultFirmwareTemplate ==
    <<Fld("targetId"), Lit("_"), Fld("vendorId"), Lit(".bin")>>

\* target.get("configuration", {})
Configuration(target) == GetOr(target, "configuration", <<>>)

get_kconfig_filename(target, permutation) ==
    format_filename(
        _get_template(Configuration(target), "kconfigFilenameTemplate",
                      "kconfigTemplate", DefaultKconfigTemplate),
        target, permutation)

get_firmware_filename(target, permutation) ==
    format_filename(
        _get_template(Configuration(target), "firmwareFilenameTemplate",
                      "fileTemplate", DefaultFirmwareTemplate),
        target, permutation)

(***************************************************************************)
(* Permutation expansion.                                                  *)
(***************************************************************************)
\* [x + (y,) for x in result for y in pool], the step of itertools.product
RECURSIVE WithEach(_, _)
WithEach(x, pool) ==
    IF pool = <<>> THEN <<>>
    ELSE <<Append(x, Head(pool))>> \o WithEach(x, Tail(pool))

\* [x + (y,) for y in pool for x in result]: the first axis varies fastest
RECURSIVE ExtendAllPoolFirst(_, _)
ExtendAllPoolFirst(result, pool) ==
    IF pool = <<>> THEN <<>>
    ELSE [i \in 1..Len(result) |-> Append(result[i], Head(pool))]
         \o ExtendAllPoolFirst(result, Tail(pool))

RECURSIVE ExtendAll(_, _)
ExtendAll(result, pool) ==
    IF result = <<>> THEN <<>>
    ELSE WithEach(Head(result), pool) \o ExtendAll(Tail(result), pool)

\* itertools.product(*pools)
RECURSIVE Product(_)
Product(pools) ==
    IF pools = <<>> THEN << <<>> >>
    ELSE ExtendAll(Product(SubSeq(pools, 1, Len(pools) - 1)), pools[Len(pools)])

\* dict(zip(keys, combo, strict=True)); keys are the distinct keys of a dict
ZipDict(keys, combo) ==
    [k \in {keys[i] : i \in 1..Len(keys)} |->
        combo[CHOOSE i \in 1..Len(keys) : keys[i] = k]]

\* config.get("permutations", {}), as the sequence of its items
Axes(target) == GetOr(Configuration(target), "permutations", <<>>)

\* the expansion without its early return for a target with no axes
generate_permutations_no_default(target) ==
    LET permutations == Axes(target)
        keys == [i \in 1..Len(permutations) |-> permutations[i].key]
        values == [i \in 1..Len(permutations) |-> permutations[i].values]
        combos == Product(values)
    IN  IF permutations = <<>> THEN <<>>
        ELSE [i \in 1..Len(combos) |-> ZipDict(keys, combos[i])]

generate_permutations(target) ==
    LET permutations == Axes(target)
        keys == [i \in 1..Len(permutations) |-> permutations[i].key]
        values == [i \in 1..Len(permutations) |-> permutations[i].values]
        combos == Product(values)
    IN  IF permutations = <<>> THEN << <<>> >>
        ELSE [i \in 1..Len(combos) |-> ZipDict(keys, combos[i])]

(***************************************************************************)
(* The inputs of the model: versions, commit URLs, catalogs, kconfigs.     *)
(***************************************************************************)
\* "v1", "v10", "v9" as code points: "v9" > "v10" > "v1" as strings
V1 == <<118, 49>>

V10 == <<118, 49, 48>>

V9 == <<118, 57>>

Versions == {V1, V10, V9}

CommitUrls == {"", "https://github.com/KalicoCrew/kalico/commit/abc123"}

RevKconfigTemplate ==
    <<Fld("targetId"), Lit("_"), Fld("vendorId"), Lit("_"), Fld("rev"), Lit(".kconfig")>>

RevFirmwareTemplate ==
    <<Fld("targetId"), Lit("_"), Fld("vendorId"), Lit("_"), Fld("rev"), Lit(".bin")>>

\* a target with one axis, rev = 1 | 2, and its own templates
TargetRev ==
    [targetId |-> "a", vendorId |-> "b",
     configuration |->
        [kconfigFilenameTemplate |-> RevKconfigTemplate,
         fileTemplate |-> RevFirmwareTemplate,
         permutations |-> << [key |-> "rev", values |-> <<"1", "2">>] >>]]

\* a target with no configuration at all
TargetPlain == [targetId |-> "mcu1", vendorId |-> "acme"]

\* a target whose kconfig template names an axis it does not declare
TargetTypo ==
    [targetId |-> "c", vendorId |-> "d",
     configuration |->
        [kconfigFilenameTemplate |->
            <<Fld("targetId"), Lit("_"), Fld("board"), Lit(".kconfig")>>,
         permutations |-> << [key |-> "rev", values |-> <<"1">>] >>]]

\* a target with an axis that lists no value
TargetNoValues ==
    [targetId |-> "e", vendorId |-> "f",
     configuration |-> [permutations |-> << [key |-> "rev", values |-> <<>>] >>]]

Documented(ids) ==
    << [id |-> "rev",
        permutations |-> [i \in 1..Len(ids) |-> [id |-> ids[i], displayName |-> ids[i]]]] >>

Catalog(targets, configurations, builds) ==
    [targets |-> targets, configurations |-> configurations, builds |-> builds]

\* the index-template.json documents the model is run on
Templates ==
    { Catalog(<<TargetRev, TargetPlain>>, Documented(<<"1">>), <<>>),
      Catalog(<<TargetPlain, TargetTypo, TargetRev>>, Documented(<<"1", "2", "3">>), <<>>),
      Catalog(<<TargetNoValues, TargetRev>>, Documented(<<"1", "2">>), <<>>),
      Catalog(<<TargetRev>>, Documented(<<"1", "2">>), <<>>) }

KconfigSets ==
    { {},
      {"a_b_1.kconfig"},
      {"a_b_1.kconfig", "a_b_2.kconfig", "mcu1_acme.kconfig"} }

\* the kconfigs/ directories a catalog is run with: the catalog of the one
\* target a/b has the kconfig of rev = 1 only
KconfigSetsOf(index) ==
    IF index.targets = <<TargetRev>> THEN {{"a_b_1.kconfig"}} ELSE KconfigSets

NoFile == <<>>

NoDir == <<>>

IndexExists == indexFile # NoFile

BuildsDirExists == buildsDir # NoDir

\* the sub-directories of builds/
VersionDirs == IF BuildsDirExists THEN DOMAIN buildsDir[1] ELSE {}

\* the builds list of index.json ([] when the file is missing)
Builds == IF IndexExists THEN indexFile[1].builds ELSE <<>>

(***************************************************************************)
(* load_index: index.json is generated from the template when it is        *)
(* missing.  load_index is what load_index returns, and IndexAfterLoad    *)
(* what it leaves on disk.                                                 *)
(***************************************************************************)
load_index == IF IndexExists THEN indexFile[1] ELSE template

IndexAfterLoad == Some(load_index)

(***************************************************************************)
(* What a command reports, and what it did: exit is the exit status of the *)
(* process, mutation the catalog mutation it ran, replaced whether         *)
(* update_build_in_index found an entry of the version, made the number of *)
(* runs of make, copied the firmware files it copied into the version      *)
(* directory, log the line it printed for each permutation.                *)
(***************************************************************************)
Report(cmd) ==
    [cmd |-> cmd, dry |-> FALSE, exit |-> 0, error |-> "", mutation |-> "",
     version |-> <<>>, commit |-> "", clock |-> 0, replaced |-> FALSE,
     total |-> 0, successful |-> 0, log |-> <<>>, made |-> 0, copied |-> {},
     missing_ids |-> {}, used |-> 0, missing_files |-> <<>>,
     uploaded |-> 0, invalidated |-> FALSE]

(***************************************************************************)
(* compile_kalico.  What the toolchain does with a kconfig is an input:     *)
(*   "klipper.bin", "klipper.elf"  make succeeds and leaves that file      *)
(*   "no_output"    make succeeds and leaves neither                       *)
(*   "make_failed"  make exits non-zero (CalledProcessError)               *)
(*   "copy_error"   copying the kconfig to .config raises                  *)
(* The result: ok, the value returned; made, whether make was run; copied, *)
(* whether a firmware file was copied to output_path; line, what it prints.*)
(***************************************************************************)
Outcomes == {"klipper.bin", "klipper.elf", "no_output", "make_failed", "copy_error"}

compile_kalico(outcome, dry_run) ==
    IF dry_run
    THEN [ok |-> TRUE, made |-> FALSE, copied |-> FALSE, line |-> "dry run"]
    ELSE IF outcome = "copy_error"
    THEN [ok |-> FALSE, made |-> FALSE, copied |-> FALSE, line |-> "error"]
    ELSE IF outcome = "make_failed"
    THEN [ok |-> FALSE, made |-> TRUE, copied |-> FALSE, line |-> "build failed"]
    ELSE IF outcome \in {"klipper.bin", "klipper.elf"}
    THEN [ok |-> TRUE, made |-> TRUE, copied |-> TRUE, line |-> "ok"]
    ELSE [ok |-> FALSE, made |-> TRUE, copied |-> FALSE, line |-> "no output found"]

(***************************************************************************)
(* The loops of build (and validate): every target of the catalog in       *)
(* order, every permutation of the target in order.                        *)
(***************************************************************************)
TargetPairs(target) ==
    LET permutations == generate_permutations(target)
    IN  [i \in 1..Len(permutations) |->
            [target |-> target, permutation |-> permutations[i]]]

RECURSIVE Pairs(_)
Pairs(targets) ==
    IF targets = <<>> THEN <<>>
    ELSE TargetPairs(Head(targets)) \o Pairs(Tail(targets))

\* one pass of the inner loop of build, on the pair number i
BuildStep(acc, pair, dry_run) ==
    LET kconfig_filename == get_kconfig_filename(pair.target, pair.permutation)
        firmware_filename == get_firmware_filename(pair.target, pair.permutation)
        counted == [acc EXCEPT !.total = @ + 1]
        res == compile_kalico(toolchain[kconfig_filename.val], dry_run)
    IN  IF kconfig_filename.err # ""
        THEN [counted EXCEPT !.error = kconfig_filename.err]
        ELSE IF firmware_filename.err # ""
        THEN [counted EXCEPT !.error = firmware_filename.err]
        ELSE IF kconfig_filename.val \notin kconfigs
        THEN [counted EXCEPT !.log = Append(@,
                [kconfig |-> kconfig_filename.val, firmware |-> firmware_filename.val,
                 line |-> "not found"])]
        ELSE [counted EXCEPT
                !.successful = IF res.ok THEN @ + 1 ELSE @,
                !.made = IF res.made THEN @ + 1 ELSE @,
                !.copied = IF res.copied THEN @ \cup {firmware_filename.val} ELSE @,
                !.log = Append(@,
                    [kconfig |-> kconfig_filename.val, firmware |-> firmware_filename.val,
                     line |-> res.line])]

\* the loops with a break where the code has a continue: a missing kconfig
\* ends them
RECURSIVE BuildLoopStopAtSkip(_, _, _, _)
BuildLoopStopAtSkip(acc, pairs, i, dry_run) ==
    IF i > Len(pairs) \/ acc.error # "" THEN acc
    ELSE IF acc.log # <<>> /\ acc.log[Len(acc.log)].line = "not found" THEN acc
    ELSE BuildLoopStopAtSkip(BuildStep(acc, pairs[i], dry_run), pairs, i + 1, dry_run)

\* the loops from pair i on; an exception (error # "") ends them
RECURSIVE BuildLoop(_, _, _, _)
BuildLoop(acc, pairs, i, dry_run) ==
    IF i > Len(pairs) \/ acc.error # "" THEN acc
    ELSE BuildLoop(BuildStep(acc, pairs[i], dry_run), pairs, i + 1, dry_run)

\* version_dir.mkdir(parents=True, exist_ok=True)
MkVersionDir(dir, version) ==
    LET old == IF dir = NoDir THEN <<>> ELSE dir[1]
    IN  Some([v \in DOMAIN old \cup {version} |-> IF v \in DOMAIN old THEN old[v] ELSE {}])

AddFiles(dir, version, files) ==
    Some([dir[1] EXCEPT ![version] = @ \cup files])

\* the exit status of the process after builder.build returns normally
BuildExitStatus(total_builds, successful_builds) == 0

(***************************************************************************)
(* build <version> --kalico-dir <dir> [--commit-url <url>] [--dry-run]     *)
(***************************************************************************)
build(version, kalico_exists, commit_url, dry_run) ==
    /\ ops < budget
    /\ ops' = ops + 1
    /\ UNCHANGED <<fixed, s3, now>>
    /\ IF ~dry_run /\ ~kalico_exists
       THEN /\ last' = [Report("build") EXCEPT
                            !.exit = 1, !.error = "Kalico directory not found"]
            /\ UNCHANGED <<indexFile, buildsDir>>
       ELSE LET index == load_index
                pairs == Pairs(index.targets)
                start == [Report("build") EXCEPT
                            !.dry = dry_run, !.version = version,
                            !.commit = commit_url, !.clock = now]
                done == BuildLoop(start, pairs, 1, dry_run)
                version_dir == MkVersionDir(buildsDir, version)
            IN  IF done.error # ""
                THEN \* an uncaught KeyError ends the process
                     /\ last' = [done EXCEPT !.exit = 1]
                     /\ indexFile' = IndexAfterLoad
                     /\ buildsDir' = AddFiles(version_dir, version, done.copied)
                ELSE /\ buildsDir' = AddFiles(version_dir, version,
                                              done.copied \cup {"metadata.json"})
                     /\ IF dry_run
                        THEN /\ indexFile' = IndexAfterLoad
                             /\ last' = [done EXCEPT
                                    !.exit = BuildExitStatus(done.total, done.successful)]
                        ELSE /\ indexFile' = Some([index EXCEPT !.builds =
                                    update_build_in_index(@, version, commit_url, now)])
                             /\ last' = [done EXCEPT
                                    !.exit = BuildExitStatus(done.total, done.successful),
                                    !.mutation = "update_build_in_index",
                                    !.replaced = FirstIndexOf(index.builds, version, 1) > 0]

\* the inputs that change nothing are left out: --commit-url and the
\* existence of the kalico directory matter to a real run only, and
\* --commit-url only to a real run that finds the kalico directory
BuildCommand ==
    \E version \in Versions, kalico_exists \in BOOLEAN,
       commit_url \in CommitUrls, dry_run \in BOOLEAN :
        /\ dry_run => kalico_exists /\ commit_url = ""
        /\ ~kalico_exists => commit_url = ""
        /\ build(version, kalico_exists, commit_url, dry_run)

(***************************************************************************)
(* rebuild-index                                                           *)
(***************************************************************************)
rebuild_index ==
    /\ ops < budget
    /\ ops' = ops + 1
    /\ UNCHANGED <<fixed, buildsDir, s3, now>>
    /\ IF ~BuildsDirExists
       THEN /\ last' = [Report("rebuild-index") EXCEPT
                            !.exit = 1, !.error = "builds/ not found", !.clock = now]
            /\ UNCHANGED indexFile
       ELSE LET existing_builds == IF IndexExists THEN load_index.builds ELSE <<>>
            IN  /\ indexFile' = Some([template EXCEPT !.builds =
                                    RebuiltBuilds(existing_builds, VersionDirs, now)])
                /\ last' = [Report("rebuild-index") EXCEPT
                                !.mutation = "rebuild_index", !.clock = now]

(***************************************************************************)
(* check-configurations                                                    *)
(***************************************************************************)
Elems(seq) == {seq[i] : i \in 1..Len(seq)}

\* the ids of the configuration groups, not of their permutations
DefinedGroupIds(configurations) == {config.id : config \in Elems(configurations)}

\* the ids documented under configurations
DefinedIds(configurations) ==
    UNION { {perm.id : perm \in Elems(GetOr(config, "permutations", <<>>))} :
                config \in Elems(configurations) }

\* the values some target's configuration.permutations lists
UsedValues(targets) ==
    UNION { UNION { Elems(axis.values) : axis \in Elems(Axes(target)) } :
                target \in Elems(targets) }

MissingIds(index) == UsedValues(index.targets) \ DefinedIds(index.configurations)

CheckConfigurationsExit(missing_ids) == IF missing_ids # {} THEN 1 ELSE 0

check_configurations ==
    /\ ops < budget
    /\ ops' = ops + 1
    /\ UNCHANGED <<fixed, buildsDir, s3, now>>
    /\ indexFile' = IndexAfterLoad
    /\ LET missing_ids == MissingIds(load_index)
       IN  last' = [Report("check-configurations") EXCEPT
                        !.missing_ids = missing_ids,
                        !.used = Cardinality(UsedValues(load_index.targets)),
                        !.exit = CheckConfigurationsExit(missing_ids)]

(***************************************************************************)
(* validate                                                                *)
(***************************************************************************)
RECURSIVE ValidateLoop(_, _, _)
ValidateLoop(acc, pairs, i) ==
    IF i > Len(pairs) \/ acc.error # "" THEN acc
    ELSE LET kconfig_filename ==
                get_kconfig_filename(pairs[i].target, pairs[i].permutation)
             counted == [acc EXCEPT !.total = @ + 1]
         IN  ValidateLoop(
                IF kconfig_filename.err # ""
                THEN [counted EXCEPT !.error = kconfig_filename.err]
                ELSE IF kconfig_filename.val \in kconfigs
                THEN [counted EXCEPT !.successful = @ + 1]
                ELSE [counted EXCEPT !.missing_files = Append(@, kconfig_filename.val)],
                pairs, i + 1)

validate_kconfigs ==
    /\ ops < budget
    /\ ops' = ops + 1
    /\ UNCHANGED <<fixed, buildsDir, s3, now>>
    /\ indexFile' = IndexAfterLoad
    /\ LET done == ValidateLoop(Report("validate"), Pairs(load_index.targets), 1)
       IN  last' = [done EXCEPT
                        !.exit = IF done.error # "" \/ done.missing_files # <<>>
                                 THEN 1 ELSE 0]

(***************************************************************************)
(* sync [--dry-run].  What AWS answers is an input:                        *)
(*   "ok"              every call succeeds                                 *)
(*   "no_credentials"  the first call raises NoCredentialsError            *)
(*   "client_error"    head_bucket or one upload raises ClientError; the   *)
(*                     files uploaded before it stay uploaded              *)
(* An S3 key is <<directory, name>>, the directory <<>> for the root.      *)
(***************************************************************************)
AwsAnswers == {"ok", "no_credentials", "client_error"}

IndexKey == <<NoDir, "index.json">>

\* the files sync walks: index.json, then every file under builds/
LocalFiles ==
    (IF IndexExists THEN {IndexKey} ELSE {})
    \cup UNION { {<<v, f>> : f \in buildsDir[1][v]} : v \in VersionDirs }

FilesOf(dirs) ==
    (IF IndexExists THEN {IndexKey} ELSE {})
    \cup UNION { {<<v, f>> : f \in buildsDir[1][v]} : v \in dirs }

\* what a failing sync had uploaded when the ClientError came: nothing
\* (head_bucket failed), or index.json and the files of some directories
SentBeforeError ==
    ({{}} \cup {FilesOf(dirs) : dirs \in SUBSET VersionDirs}) \ {LocalFiles}

sync_to_s3(dry_run, aws, sent) ==
    /\ ops < budget
    /\ ops' = ops + 1
    /\ UNCHANGED <<fixed, indexFile, buildsDir, now>>
    /\ IF aws = "no_credentials"
       THEN /\ UNCHANGED s3
            /\ last' = [Report("sync") EXCEPT
                            !.dry = dry_run, !.exit = 1,
                            !.error = "AWS credentials not configured"]
       ELSE IF aws = "client_error"
       THEN /\ s3' = IF dry_run THEN s3 ELSE s3 \cup sent
            /\ last' = [Report("sync") EXCEPT
                            !.dry = dry_run, !.exit = 1, !.error = "ClientError"]
       ELSE /\ s3' = IF dry_run THEN s3 ELSE s3 \cup LocalFiles
            /\ last' = [Report("sync") EXCEPT
                            !.dry = dry_run,
                            !.uploaded = Cardinality(LocalFiles),
                            !.invalidated = ~dry_run]

SyncCommand ==
    \E dry_run \in BOOLEAN, aws \in AwsAnswers :
        \E sent \in (IF aws = "client_error" /\ ~dry_run THEN SentBeforeError ELSE {{}}) :
            sync_to_s3(dry_run, aws, sent)

(***************************************************************************)
(* The environment: time passes, and the operator removes the directory   *)
(* of a version from builds/.                                              *)
(***************************************************************************)
Tick ==
    /\ now < MaxClock
    /\ now' = now + 1
    /\ UNCHANGED <<fixed, indexFile, buildsDir, s3, ops, last>>

RemoveVersionDir ==
    /\ ops < budget
    /\ \E version \in VersionDirs :
        buildsDir' = Some([v \in VersionDirs \ {version} |-> buildsDir[1][v]])
    /\ UNCHANGED <<fixed, indexFile, s3, now, ops, last>>

(***************************************************************************)
(* Direct calls of the pure methods, on inputs drawn from bounded sets.    *)
(***************************************************************************)
MaxAxes == 2

MaxValues == 2

AxisNames == <<"A", "B", "C", "D">>

AxisValues ==
    << <<"1", "2", "3", "4">>, <<"x", "y", "z", "w">>,
       <<"p", "q", "r", "s">>, <<"k", "l", "m", "n">> >>

\* the permutations dicts with the first n axes, each of 0..MaxValues values
AxesOfLengths(lens) ==
    [i \in 1..Len(lens) |->
        [key |-> AxisNames[i], values |-> SubSeq(AxisValues[i], 1, lens[i])]]

AxesChoices ==
    UNION { {AxesOfLengths(lens) : lens \in [1..n -> 0..MaxValues]} : n \in 0..MaxAxes }

\* the dict with these (key, value) items
DictOf(items) ==
    [k \in {it[1] : it \in items} |-> (CHOOSE it \in items : it[1] = k)[2]]

\* a key that is absent, or present with one of these values
Optional(key, values) == {{}} \cup {{<<key, v>>} : v \in values}

BoardKconfigTemplate ==
    <<Fld("targetId"), Lit("-"), Fld("board"), Lit(".cfg")>>

AxisFirmwareTemplate ==
    <<Fld("vendorId"), Lit("-"), Fld("A"), Lit(".elf")>>

EmptyString == <<>>

\* configurations: each template key absent, empty or set
TemplateConfigs ==
    { kp \cup kl \cup fp \cup fl :
        kp \in Optional("kconfigFilenameTemplate",
                        {EmptyString, RevKconfigTemplate, BoardKconfigTemplate}),
        kl \in Optional("kconfigTemplate",
                        {EmptyString, RevKconfigTemplate, BoardKconfigTemplate}),
        fp \in Optional("firmwareFilenameTemplate", {EmptyString, AxisFirmwareTemplate}),
        fl \in Optional("fileTemplate", {RevFirmwareTemplate}) }

Mcu(configuration) ==
    [targetId |-> "mcu1", vendorId |-> "acme", configuration |-> configuration]

\* targets to expand: no configuration, no permutations key, or some axes
ExpandTargets ==
    {TargetPlain, Mcu(DictOf({<<"fileTemplate", RevFirmwareTemplate>>}))}
    \cup {Mcu(DictOf({<<"permutations", axes>>})) : axes \in AxesChoices}

\* targets to resolve filenames of
ResolveTargets ==
    {TargetPlain}
    \cup {Mcu(DictOf(items \cup {<<"permutations", axes>>})) :
            items \in TemplateConfigs,
            axes \in {<<>>, AxesOfLengths(<<2>>), TargetRev.configuration.permutations}}

NoCall == [fn |-> "none"]

CallGeneratePermutations ==
    /\ call = NoCall
    /\ \E target \in ExpandTargets :
        call' = [fn |-> "generate_permutations", target |-> target,
                 ret |-> generate_permutations(target)]
    /\ UNCHANGED sysvars

CallGetKconfigFilename ==
    /\ call = NoCall
    /\ \E target \in ResolveTargets :
        \E permutation \in Elems(generate_permutations(target)) :
            call' = [fn |-> "get_kconfig_filename", target |-> target,
                     permutation |-> permutation,
                     ret |-> get_kconfig_filename(target, permutation)]
    /\ UNCHANGED sysvars

CallGetFirmwareFilename ==
    /\ call = NoCall
    /\ \E target \in ResolveTargets :
        \E permutation \in Elems(generate_permutations(target)) :
            call' = [fn |-> "get_firmware_filename", target |-> target,
                     permutation |-> permutation,
                     ret |-> get_firmware_filename(target, permutation)]
    /\ UNCHANGED sysvars

\* the toolchains the model is run on: any outcome for a_b_1.kconfig, and
\* a firmware image (klipper.elf) for every other kconfig
Toolchains(files) ==
    {[f \in files |-> IF f = "a_b_1.kconfig" THEN o ELSE "klipper.elf"] : o \in Outcomes}

(***************************************************************************)
(* Specifications.                                                         *)
(*   Spec        every command, from an index.json that is missing or is   *)
(*               the template                                              *)
(*   SpecCatalog build and rebuild-index, from an index.json that is       *)
(*               missing or is the template                                *)
(*   SpecLoaded  build and rebuild-index, from an index.json whose builds  *)
(*               list is any list of at most two entries                   *)
(*   SpecFn      direct calls of the pure methods                          *)
(***************************************************************************)
\* builds/ is missing, or holds the directory of one version
InitialBuildsDirs == {NoDir, Some([v \in {V10} |-> {"metadata.json"}])}

InitRun ==
    /\ s3 = {}
    /\ now = 0
    /\ ops = 0
    /\ last = Report("none")
    /\ call = NoCall

Init ==
    /\ InitRun
    /\ template \in Templates
    /\ kconfigs \in KconfigSetsOf(template)
    /\ toolchain \in Toolchains(kconfigs)
    /\ budget = MaxOps
    /\ buildsDir \in InitialBuildsDirs
    /\ indexFile \in {NoFile, Some(template)}
    /\ loaded = Builds

LoadedEntries == {_create_build_entry(v, "", 0) : v \in {V1, V9}}

LoadedBuilds ==
    {<<>>} \cup {<<e>> : e \in LoadedEntries}
           \cup {<<e, f>> : e \in LoadedEntries, f \in LoadedEntries}

InitLoaded ==
    /\ InitRun
    /\ template = Catalog(<<TargetRev, TargetPlain>>, Documented(<<"1">>), <<>>)
    /\ kconfigs = {"a_b_1.kconfig"}
    /\ toolchain = [f \in kconfigs |-> "klipper.bin"]
    /\ budget = MaxCatalogOps
    /\ buildsDir = NoDir
    /\ \E builds \in LoadedBuilds :
        indexFile = Some([template EXCEPT !.builds = builds])
    /\ loaded = Builds

Next ==
    \/ BuildCommand
    \/ rebuild_index
    \/ check_configurations
    \/ validate_kconfigs
    \/ SyncCommand
    \/ Tick
    \/ RemoveVersionDir

InitCatalog ==
    /\ InitRun
    /\ template = Catalog(<<TargetRev, TargetPlain>>, Documented(<<"1">>), <<>>)
    /\ kconfigs = {"a_b_1.kconfig"}
    /\ toolchain \in [kconfigs -> {"klipper.bin", "make_failed"}]
    /\ budget = MaxCatalogOps
    /\ buildsDir \in InitialBuildsDirs
    /\ indexFile \in {NoFile, Some(template)}
    /\ loaded = Builds

NextCatalog ==
    \/ BuildCommand
    \/ rebuild_index
    \/ Tick
    \/ RemoveVersionDir

Spec == Init /\ [][Next]_vars

SpecCatalog == InitCatalog /\ [][NextCatalog]_vars

SpecLoaded == InitLoaded /\ [][NextCatalog]_vars

InitFn ==
    /\ template = Catalog(<<>>, <<>>, <<>>)
    /\ indexFile = NoFile
    /\ buildsDir = NoDir
    /\ kconfigs = {}
    /\ toolchain = <<>>
    /\ s3 = {}
    /\ now = 0
    /\ ops = 0
    /\ budget = 0
    /\ last = Report("none")
    /\ loaded = <<>>
    /\ call = NoCall

NextFn ==
    \/ CallGeneratePermutations
    \/ CallGetKconfigFilename
    \/ CallGetFirmwareFilename

SpecFn == InitFn /\ [][NextFn]_vars

(***************************************************************************)
(* Properties of the catalog.                                              *)
(***************************************************************************)
\* each entry's version is strictly greater than the next one's
StrictlyDescending(builds) ==
    \A i \in 1..(Len(builds) - 1) :
        StrLess(VersionKey(builds[i + 1]), VersionKey(builds[i]))

\* no entry's version is less than the next one's
Descending(builds) ==
    \A i \in 1..(Len(builds) - 1) :
        ~StrLess(VersionKey(builds[i]), VersionKey(builds[i + 1]))

NoDuplicateVersions(builds) ==
    \A i, j \in 1..Len(builds) :
        i # j => VersionKey(builds[i]) # VersionKey(builds[j])

\* the state is the one a catalog mutation has just left
AfterMutation == last.mutation # ""

EntriesOf(builds, version) ==
    {i \in 1..Len(builds) : Get(builds[i], "version") = Some(version)}

\* C2: the builds list holds at most one entry per version in every catalog
\* state reached through update_build_in_index, and right after an upsert
\* the one entry of the upserted version is the one this call created (its
\* timestamp, its commit reference), also when the version had an entry.
C2_OneEntryPerVersion ==
    /\ NoDuplicateVersions(Builds)
    /\ last.mutation = "update_build_in_index" =>
        \E i \in 1..Len(Builds) :
            /\ EntriesOf(Builds, last.version) = {i}
            /\ Builds[i].buildDate = last.clock
            /\ Builds[i].githubCommitUrl = last.commit

\* the second upsert of a version, one second after the first and with
\* another commit reference, has replaced the entry
C2_Witness ==
    /\ last.mutation = "update_build_in_index"
    /\ last.replaced
    /\ ops = 2
    /\ last.clock = 1
    /\ last.commit # ""
    /\ Len(Builds) = 1

\* the step is a run of rebuild-index
RebuildIndexStep == ops' = ops + 1 /\ last'.cmd = "rebuild-index"

\* C8: rebuild_index leaves exactly one entry per sub-directory of builds/
\* and nothing else; a version that had an entry keeps that entry unchanged,
\* a version that had none gets a fresh entry with the current timestamp and
\* an empty commit reference; without builds/ it fails and leaves index.json
\* as it was.
C8_RebuildIndex ==
    [][RebuildIndexStep =>
        IF ~BuildsDirExists
        THEN indexFile' = indexFile /\ last'.exit = 1
        ELSE /\ last'.exit = 0
             /\ Len(Builds') = Cardinality(VersionDirs)
             /\ \A v \in VersionDirs :
                    \E i \in 1..Len(Builds') :
                        /\ EntriesOf(Builds', v) = {i}
                        /\ IF EntriesOf(Builds, v) # {}
                           THEN \E j \in EntriesOf(Builds, v) : Builds'[i] = Builds[j]
                           ELSE Builds'[i] = [version |-> v, buildDate |-> now,
                                              githubCommitUrl |-> ""]
    ]_vars

\* a rebuild has kept an older entry, with its commit reference, has made a
\* fresh entry for a directory that had none and has dropped nothing
C8_Witness ==
    /\ last.mutation = "rebuild_index"
    /\ last.clock = 1
    /\ \E i, j \in 1..Len(Builds) :
        /\ Builds[i].buildDate = 0 /\ Builds[i].githubCommitUrl # ""
        /\ Builds[j].buildDate = 1 /\ Builds[j].githubCommitUrl = ""

(***************************************************************************)
(* Properties of the permutation expander.                                 *)
(***************************************************************************)
IsExpansion == call.fn = "generate_permutations"

RECURSIVE ProductOfLengths(_, _)
ProductOfLengths(axes, from) ==
    IF from > Len(axes) THEN 1
    ELSE Len(axes[from].values) * ProductOfLengths(axes, from + 1)

\* the value of axis j in the i-th combination (i from 0) of the
\* lexicographic enumeration in which the last axis varies fastest
ValueAt(axes, i, j) ==
    axes[j].values[((i \div ProductOfLengths(axes, j + 1)) % Len(axes[j].values)) + 1]

\* C3: for a non-empty axes mapping the result is the full Cartesian product
\* of the value lists, one mapping per combination, each with exactly one
\* entry per axis key, in lexicographic order over the declared axis order,
\* the last-declared axis varying fastest.
C3_CartesianProductInOrder ==
    IsExpansion /\ Axes(call.target) # <<>> =>
        LET axes == Axes(call.target)
            keys == {axes[j].key : j \in 1..Len(axes)}
        IN  /\ Len(call.ret) = ProductOfLengths(axes, 1)
            /\ \A i \in 1..Len(call.ret) :
                /\ DOMAIN call.ret[i] = keys
                /\ \A j \in 1..Len(axes) :
                    call.ret[i][axes[j].key] = ValueAt(axes, i - 1, j)
            /\ \A i, k \in 1..Len(call.ret) : i # k => call.ret[i] # call.ret[k]

\* axes {A: [1, 2], B: [x, y]} have given their four mappings, in order
C3_Witness ==
    /\ IsExpansion
    /\ Axes(call.target) = << [key |-> "A", values |-> <<"1", "2">>],
                              [key |-> "B", values |-> <<"x", "y">>] >>
    /\ call.ret = << [A |-> "1", B |-> "x"], [A |-> "1", B |-> "y"],
                     [A |-> "2", B |-> "x"], [A |-> "2", B |-> "y"] >>

\* C4, as claimed: the expansion is never empty, and a target with no
\* permutation axes yields exactly one permutation, the empty mapping.
C4_NeverEmpty ==
    IsExpansion =>
        /\ Len(call.ret) >= 1
        /\ Axes(call.target) = <<>> => call.ret = << <<>> >>

\* C4, amended: the expansion is empty exactly when some axis lists no
\* value; a target with no permutation axes yields exactly one permutation,
\* the empty mapping.
C4_EmptyOnlyForEmptyAxis ==
    IsExpansion =>
        /\ call.ret = <<>> <=>
            \E j \in 1..Len(Axes(call.target)) : Axes(call.target)[j].values = <<>>
        /\ Axes(call.target) = <<>> => call.ret = << <<>> >>

\* a target with no configuration has given the one empty mapping
C4_Witness ==
    /\ IsExpansion
    /\ "configuration" \notin DOMAIN call.target
    /\ call.ret = << <<>> >>

(***************************************************************************)
(* Properties of the filename resolver.                                    *)
(***************************************************************************)
IsResolution == call.fn \in {"get_kconfig_filename", "get_firmware_filename"}

PrimaryKey ==
    IF call.fn = "get_kconfig_filename" THEN "kconfigFilenameTemplate"
    ELSE "firmwareFilenameTemplate"

LegacyKey == IF call.fn = "get_kconfig_filename" THEN "kconfigTemplate" ELSE "fileTemplate"

Extension == IF call.fn = "get_kconfig_filename" THEN ".kconfig" ELSE ".bin"

\* the key is present in the target's configuration with a non-empty value
IsSet(key) ==
    /\ key \in DOMAIN Configuration(call.target)
    /\ Configuration(call.target)[key] # EmptyString

\* C5: the primary key's template is used when it is present and non-empty,
\* else the legacy key's when it is present and non-empty, else the default
\* {targetId}_{vendorId}.kconfig / {targetId}_{vendorId}.bin; with no
\* template key, targetId mcu1 and vendorId acme resolve to mcu1_acme.kconfig
\* and mcu1_acme.bin.
C5_TemplateFallback ==
    IsResolution =>
        LET config == Configuration(call.target)
            rendered(tmpl) == StrFormat(tmpl, MergedParams(call.target, call.permutation))
        IN  /\ IsSet(PrimaryKey) => call.ret = rendered(config[PrimaryKey])
            /\ ~IsSet(PrimaryKey) /\ IsSet(LegacyKey) => call.ret = rendered(config[LegacyKey])
            /\ ~IsSet(PrimaryKey) /\ ~IsSet(LegacyKey) =>
                call.ret = Ok(call.target.targetId \o "_" \o call.target.vendorId \o Extension)
            /\ call.target = TargetPlain => call.ret = Ok("mcu1_acme" \o Extension)

\* with the primary and the legacy key set to different templates, the
\* primary one has named the file
C5_Witness ==
    /\ call.fn = "get_kconfig_filename"
    /\ IsSet(PrimaryKey) /\ IsSet(LegacyKey)
    /\ Configuration(call.target)[PrimaryKey] = RevKconfigTemplate
    /\ Configuration(call.target)[LegacyKey] = BoardKconfigTemplate
    /\ call.ret = Ok("mcu1_acme_1.kconfig")

\* the template the resolution selects
SelectedTemplate ==
    IF IsSet(PrimaryKey) THEN Configuration(call.target)[PrimaryKey]
    ELSE IF IsSet(LegacyKey) THEN Configuration(call.target)[LegacyKey]
    ELSE IF call.fn = "get_kconfig_filename" THEN DefaultKconfigTemplate
    ELSE DefaultFirmwareTemplate

\* the parameters the template references
FieldsOf(tmpl) == {tmpl[i].fld : i \in {k \in 1..Len(tmpl) : IsFld(tmpl[k])}}

\* the keys of the merged mapping
ParamKeys == {"targetId", "vendorId"} \cup DOMAIN call.permutation

\* C9: a resolution whose selected template references a parameter that the
\* merged mapping lacks fails with an error and returns no filename; every
\* other resolution returns a filename.
C9_UnknownParameterFails ==
    IsResolution =>
        IF FieldsOf(SelectedTemplate) \subseteq ParamKeys
        THEN call.ret.err = ""
        ELSE call.ret = [err |-> "KeyError", val |-> ""]

\* a template naming {board}, which the target does not declare, has failed
C9_Witness ==
    /\ call.fn = "get_kconfig_filename"
    /\ SelectedTemplate = BoardKconfigTemplate
    /\ "board" \notin ParamKeys
    /\ call.ret.err = "KeyError"

(***************************************************************************)
(* Properties of the commands.                                             *)
(***************************************************************************)
\* the lines compile_kalico prints when it returns False
FailureLines == {"build failed", "no output found", "error"}

\* some compiler invocation of the last build failed
SomeBuildFailed ==
    \E i \in 1..Len(last.log) : last.log[i].line \in FailureLines

\* C6: the build command ends with a non-zero exit status whenever at least
\* one compiler invocation of the run failed, and a run whose only
\* non-successes are missing-kconfig skips does not count as failed.
C6_FailedBuildExitsNonZero ==
    last.cmd = "build" =>
        /\ SomeBuildFailed => last.exit # 0
        /\ ~SomeBuildFailed /\ last.error = "" => last.exit = 0

\* the step is a dry run of build
DryBuildStep == ops' = ops + 1 /\ last'.cmd = "build" /\ last'.dry

\* the step is a dry run of sync
DrySyncStep == ops' = ops + 1 /\ last'.cmd = "sync" /\ last'.dry

\* the (kconfig, firmware) file names a run has reported, in order
FileNames(log) == [i \in 1..Len(log) |-> <<log[i].kconfig, log[i].firmware>>]

\* what the loops of a real run report from this state
RealRun == BuildLoop(Report("build"), Pairs(load_index.targets), 1, FALSE)

\* C7: a dry run (build --dry-run, sync --dry-run) writes no file into the
\* build output directory, never runs the compiler, uploads and invalidates
\* nothing and leaves the builds list of the catalog unchanged; a dry run of
\* build reports the file names a real run reports.
C7_DryRunHasNoSideEffect ==
    [][(DryBuildStep \/ DrySyncStep =>
            /\ buildsDir' = buildsDir
            /\ last'.made = 0
            /\ s3' = s3
            /\ ~last'.invalidated
            /\ Builds' = Builds)
       /\ (DryBuildStep => FileNames(last'.log) = FileNames(RealRun.log))
    ]_vars

\* the step is a run of check-configurations
CheckConfigurationsStep == ops' = ops + 1 /\ last'.cmd = "check-configurations"

\* some target of the catalog lists this value for some axis
IsUsed(index, value) ==
    \E t \in 1..Len(index.targets) :
        \E a \in 1..Len(Axes(index.targets[t])) :
            \E k \in 1..Len(Axes(index.targets[t])[a].values) :
                Axes(index.targets[t])[a].values[k] = value

\* some entry under configurations documents this id
IsDocumented(index, id) ==
    \E c \in 1..Len(index.configurations) :
        \E k \in 1..Len(index.configurations[c].permutations) :
            index.configurations[c].permutations[k].id = id

\* the values an axis of the model's catalogs can list
AllValues == {"1", "2", "3", "rev"}

\* the command reports the used values that are not documented, and fails
\* exactly when there is one
ReportsUsedMinusDocumented ==
    /\ last'.missing_ids \subseteq AllValues
    /\ \A v \in AllValues :
        v \in last'.missing_ids <=>
            IsUsed(load_index, v) /\ ~IsDocumented(load_index, v)
    /\ last'.exit = 1 <=> last'.missing_ids # {}
    /\ last'.exit \in {0, 1}

\* C10, as claimed: check_configurations reports exactly the used values that
\* are not documented, fails if and only if there is one, and has no side
\* effect on the catalog.
C10_CheckIsPure ==
    [][CheckConfigurationsStep =>
        /\ ReportsUsedMinusDocumented
        /\ indexFile' = indexFile
    ]_vars

\* C10, amended: check_configurations reports exactly the used values that
\* are not documented and fails if and only if there is one; it never changes
\* an index.json that exists, nor what load_index returns; when index.json
\* is missing it creates it from the template.
C10_CheckChangesNoCatalog ==
    [][CheckConfigurationsStep =>
        /\ ReportsUsedMinusDocumented
        /\ load_index' = load_index
        /\ IF IndexExists THEN indexFile' = indexFile ELSE indexFile' = Some(template)
        /\ UNCHANGED <<buildsDir, s3>>
    ]_vars

\* check-configurations has failed on a catalog that uses "2" and documents only "1"
C10_Witness ==
    /\ last.cmd = "check-configurations"
    /\ last.missing_ids = {"2"}
    /\ last.exit = 1
    /\ IsDocumented(load_index, "1")

\* the number of (target, permutation) pairs of the targets from number t on
RECURSIVE NumPairs(_, _)
NumPairs(targets, t) ==
    IF t > Len(targets) THEN 0
    ELSE Len(generate_permutations(targets[t])) + NumPairs(targets, t + 1)

\* pair number n counted from target number t: targets in catalog order, the
\* permutations of a target in the order generate_permutations returns them
RECURSIVE PairAt(_, _, _)
PairAt(targets, t, n) ==
    LET permutations == generate_permutations(targets[t])
    IN  IF n <= Len(permutations)
        THEN [target |-> targets[t], permutation |-> permutations[n]]
        ELSE PairAt(targets, t + 1, n - Len(permutations))

\* both file names of the pair resolve
Resolves(pair) ==
    /\ get_kconfig_filename(pair.target, pair.permutation).err = ""
    /\ get_firmware_filename(pair.target, pair.permutation).err = ""

\* the number of the first pair with a file name that does not resolve, and
\* the number of pairs plus one when every file name resolves
FirstUnresolved(targets) ==
    LET n == NumPairs(targets, 1)
        bad == {i \in 1..n : ~Resolves(PairAt(targets, 1, i))}
    IN  IF bad = {} THEN n + 1
        ELSE CHOOSE i \in bad : \A j \in bad : i <= j

\* the number of pairs the run has reported with one of these lines
Count(log, lines) == Cardinality({i \in 1..Len(log) : log[i].line \in lines})

Succeeded(log) == Count(log, {"ok", "dry run"})

Skipped(log) == Count(log, {"not found"})

Failed(log) == Count(log, FailureLines)

\* the entry is what the run reports for the pair: its file names, a skip
\* exactly when the kconfig file is missing, and what the compiler
\* invocation gives otherwise
ProcessedAs(entry, pair, dry_run) ==
    LET kconfig_filename == get_kconfig_filename(pair.target, pair.permutation).val
    IN  /\ entry.kconfig = kconfig_filename
        /\ entry.firmware = get_firmware_filename(pair.target, pair.permutation).val
        /\ IF kconfig_filename \notin kconfigs
           THEN entry.line = "not found"
           ELSE entry.line = compile_kalico(toolchain[kconfig_filename], dry_run).line

\* the step is a run of build that has found the kalico directory
BuildRunStep ==
    /\ ops' = ops + 1
    /\ last'.cmd = "build"
    /\ last'.error # "Kalico directory not found"

\* the run has processed the first k pairs of the catalog, each once and in
\* order, and has counted the succeeded ones
ProcessedFirst(k) ==
    /\ Len(last'.log) = k
    /\ \A i \in 1..k :
        ProcessedAs(last'.log[i], PairAt(load_index.targets, 1, i), last'.dry)
    /\ last'.successful = Succeeded(last'.log)

\* the run has reached its end: metadata.json is in the version directory
\* and a real run has recorded the version in the catalog
RanToCompletion ==
    /\ last'.error = ""
    /\ last'.exit = 0
    /\ "metadata.json" \in buildsDir'[1][last'.version]
    /\ ~last'.dry => last'.mutation = "update_build_in_index"

\* C11, as claimed: a build run processes every (target, permutation) pair
\* exactly once, targets in catalog order and permutations in expander
\* order, and always runs to completion: a skip or a failed or raising
\* compiler invocation never prevents a later pair from being processed, and
\* at the end attempted = succeeded + skipped + failed.
C11_EveryPairProcessed ==
    [][BuildRunStep =>
        /\ ProcessedFirst(NumPairs(load_index.targets, 1))
        /\ RanToCompletion
        /\ last'.total = NumPairs(load_index.targets, 1)
        /\ last'.total =
                Succeeded(last'.log) + Skipped(last'.log) + Failed(last'.log)
    ]_vars

\* C11, amended: a build run that has found the kalico directory processes
\* the pairs exactly once each, targets in catalog order and permutations in
\* expander order, up to the first pair with a file name template that
\* names an unknown parameter; a skip or a failed or raising compiler
\* invocation never prevents a later pair from being processed.  When every
\* file name resolves the run reaches its end and attempted = succeeded +
\* skipped + failed; otherwise the KeyError ends the run at that pair, which
\* is counted as attempted and is neither succeeded, skipped nor failed: no
\* later pair is processed and the builds list is left as it was.
C11_EveryPairUntilTemplateError ==
    [][BuildRunStep =>
        LET n == NumPairs(load_index.targets, 1)
            k == FirstUnresolved(load_index.targets)
            counted == Succeeded(last'.log) + Skipped(last'.log) + Failed(last'.log)
        IN  /\ ProcessedFirst(k - 1)
            /\ IF k > n
               THEN /\ RanToCompletion
                    /\ last'.total = n
                    /\ last'.total = counted
               ELSE /\ last'.error = "KeyError"
                    /\ last'.exit = 1
                    /\ last'.total = k
                    /\ last'.total = counted + 1
                    /\ Builds' = load_index.builds
    ]_vars

\* a real run on the catalog of the one target a/b with rev = 1 | 2, the
\* kconfig of rev = 1 only and a compiler that succeeds: 2 attempted,
\* 1 succeeded, 1 skipped
C11_Witness ==
    /\ last.cmd = "build"
    /\ ~last.dry
    /\ last.error = ""
    /\ load_index.targets = <<TargetRev>>
    /\ kconfigs = {"a_b_1.kconfig"}
    /\ last.total = 2
    /\ last.successful = 1
    /\ Len(last.log) = 2
    /\ last.log[1].line = "ok"
    /\ last.log[2].line = "not found"
    /\ Skipped(last.log) = 1
    /\ Failed(last.log) = 0

====
